---- MODULE Spec2Model ----
(***************************************************************************)
(* Model of the team randomizer of sikcheong:                              *)
(*   src/lib/randomizer.ts    createRandomGenerator, shuffleArray,         *)
(*                            randomizeTeams                               *)
(*   src/app/result/page.tsx  calculateAppearances, findReplacement,       *)
(*                            regenerateTeamsWithDisabled, ResultContent   *)
(* The 32-bit generator state is kept as the set of its set bit positions, *)
(* so that the shifts and exclusive-ors are exact and no product leaves    *)
(* the range of the model checker's integers.                              *)
(***************************************************************************)
EXTENDS Integers, Sequences, FiniteSets, TLC

VARIABLES
  params,               \* RandomizationParams handed to randomizeTeams
  pc,                   \* position inside randomizeTeams / the adjustment step
  random,               \* the generator closure of randomizeTeams
  appearances,          \* running appearance count per pool member
  teams,                \* teams built so far, one sequence per round
  round,                \* round being built (0-based, as in the code)
  sortedEligible,       \* locals of the current fill pass
  shuffledUnderMinimum,
  selectFromUnderMin,
  shuffledRemaining,
  selectFromRemaining,
  i,                    \* index of the running selection loop
  passes,               \* fill passes started in the current round
  result,               \* value returned by randomizeTeams
  invocation,           \* number of the running call of randomizeTeams
  previous,             \* value returned by the call before it
  disabled,             \* disabledParticipants: round index -> set of names
  entries,              \* Object.entries(disabled) still to be processed
  originalTeams,        \* the teams array handed to regenerateTeamsWithDisabled
  newTeams,             \* the copy regenerateTeamsWithDisabled works on
  aliased,              \* rounds of newTeams that are arrays of originalTeams
  errors,               \* ConstraintErrors: key -> message
  editRound,            \* round whose disabled members are being removed
  toRemove,             \* members of that round still to be removed
  call,                 \* arguments and return value of the last findReplacement
  failed,               \* per round, removals that found no replacement
  regenerated,          \* value returned by regenerateTeamsWithDisabled
  genSeed,              \* seed handed to createRandomGenerator by two callers
  generators,           \* the two closures it returned
  drawn,                \* per closure, the values it returned so far (* 2^32)
  parsedDate,           \* arguments of determineRounds
  userRounds,
  rounds,               \* value returned by determineRounds
  active,               \* invocation whose locals are current (0: a lone one)
  parked,               \* locals of the suspended invocation
  alone,                \* what the lone invocation returned
  shuffling             \* a call of shuffleArray with draws of any generator

regenVars == <<disabled, entries, originalTeams, newTeams, aliased, errors,
               editRound, toRemove, call, failed, regenerated>>

randomizeVars == <<params, pc, random, appearances, teams, round, sortedEligible,
                   shuffledUnderMinimum, selectFromUnderMin, shuffledRemaining,
                   selectFromRemaining, i, passes, result, invocation, previous>>

generatorVars == <<genSeed, generators, drawn>>

roundsVars == <<parsedDate, userRounds, rounds>>

interleaveVars == <<active, parked, alone>>

\* what randomizeTeams and the adjustment step never touch
outsideVars == <<generatorVars, roundsVars, interleaveVars, shuffling>>

vars == <<randomizeVars, regenVars, outsideVars>>

----------------------------------------------------------------------------
(* Bounds of the explored inputs *)

MaxPool == 5
MaxTeamSize == 4
MaxRounds == 5
MaxMin == 3
MaxMax == 4
NumDateSeeds == 4
MaxInvocations == 2
MaxCells == 8        \* pool size * rounds of the runs that are adjusted
MaxDisabled == 2     \* disabled (round, person) pairs of one adjustment

Names == <<"a", "b", "c", "d", "e", "f">>

\* pools of distinct names, from one name (too small) up to MaxPool
Pools == {SubSeq(Names, 1, n) : n \in 1..MaxPool}

\* seeds: the degenerate seed 0, the seed of the documented scenario, a
\* numeric seed whose first draw lies above 1/2, and date seeds in YYYYMMDD
\* form
Seeds == {0, 42, 123456} \cup {20250101 + k : k \in 0..(NumDateSeeds - 1)}

ParamSpace ==
  [pool : Pools, teamSize : (-1)..MaxTeamSize, rounds : 1..MaxRounds,
   minAppearances : 0..MaxMin, maxAppearances : 0..MaxMax, seed : Seeds]

----------------------------------------------------------------------------
(* createRandomGenerator: xorshift on a 32-bit state *)

\* ToInt32 of the seed at the first shift: the bit positions of the two's
\* complement of a number -2^31 <= n < 2^31 (\div rounds down)
ToBits(n) ==
  {b \in 0..30 : (n \div (2 ^ b)) % 2 = 1} \cup (IF n < 0 THEN {31} ELSE {})

\* <<: the bits shifted past position 31 are lost
Shl(S, k) == {b + k : b \in {x \in S : x + k <= 31}}

\* >> in place of >>>: the sign bit is copied into the vacated positions
Shr_Signed(S, k) ==
  {b - k : b \in {x \in S : x >= k}} \cup (IF 31 \in S THEN (32 - k)..31 ELSE {})

\* >>>: zeros enter from the left
Shr(S, k) == {b - k : b \in {x \in S : x >= k}}
Xor(A, B) == (A \ B) \cup (B \ A)

\* state ^= state << 13; state ^= state >>> 17; state ^= state << 5
XorShift(S) ==
  LET s1 == Xor(S, Shl(S, 13))
      s2 == Xor(s1, Shr(s1, 17))
  IN  Xor(s2, Shl(s2, 5))

RECURSIVE Weigh(_, _, _)
Weigh(S, b, top) ==
  IF b > top THEN 0
  ELSE (IF b \in S THEN 1 ELSE 0) + 2 * Weigh(S, b + 1, top)

Lo16(S) == Weigh(S, 0, 15)
Hi16(S) == Weigh(S, 16, 31)

\* Math.floor(((state >>> 0) / 4294967296) * n) for a small positive n
FloorMul(S, n) == ((Hi16(S) * n) + ((Lo16(S) * n) \div 65536)) \div 65536

\* a generator kept at module level and reused by later calls
createRandomGenerator_Shared(seed) ==
  IF random.created THEN random
  ELSE [created |-> TRUE, state |-> ToBits(seed), calls |-> 0]

createRandomGenerator(seed) == [created |-> TRUE, state |-> ToBits(seed), calls |-> 0]

NoGenerator == [created |-> FALSE, state |-> {}, calls |-> 0]

\* one call of the closure: the new closure state
Draw(g) == [g EXCEPT !.state = XorShift(g.state), !.calls = g.calls + 1]

----------------------------------------------------------------------------
(* shuffleArray: Fisher-Yates from the last index down to 1 *)

\* result[i] = result[j] without the exchange
Swap_NoTemp(s, x, y) == [s EXCEPT ![x] = s[y]]

\* [result[i], result[j]] = [result[j], result[i]]
Swap(s, x, y) == [s EXCEPT ![x] = s[y], ![y] = s[x]]

\* positions are 1-based here: position k is index k-1 of the code, so the
\* code's j = floor(random() * (i + 1)) is position FloorMul(state, k) + 1
RECURSIVE ShuffleFrom(_, _, _)
ShuffleFrom(res, g, k) ==
  IF k <= 1 THEN [result |-> res, random |-> g]
  \* r and g2 are bound to the values of the array and of the generator
  \* after the draw, as the loop holds them in its variables
  ELSE CHOOSE out \in
         {ShuffleFrom(Swap(r, k, FloorMul(g2.state, k) + 1), g2, k - 1) :
            r \in {res}, g2 \in {Draw(g)}} : TRUE

shuffleArray(array, g) == ShuffleFrom(array, g, Len(array))

----------------------------------------------------------------------------
(* helpers on arrays *)

Includes(s, x) == \E k \in 1..Len(s) : s[k] = x

Range(s) == {s[k] : k \in 1..Len(s)}

Distinct(s) == \A x, y \in 1..Len(s) : x # y => s[x] # s[y]

\* the comparator of the sort in randomizeTeams
comparePriority(a, b, app, minApp) ==
  LET aUnderMin == IF app[a] < minApp THEN 1 ELSE 0
      bUnderMin == IF app[b] < minApp THEN 1 ELSE 0
  IN  IF aUnderMin # bUnderMin THEN bUnderMin - aUnderMin
      ELSE app[a] - app[b]

\* Array.prototype.sort is stable: x goes after every element that does not
\* compare greater than it
RECURSIVE InsertSorted(_, _, _, _)
\* (s is bound to the value of the argument s0)
InsertSorted(s0, x, app, minApp) ==
  CHOOSE out \in
    {IF s = <<>> THEN <<x>>
     ELSE IF comparePriority(s[Len(s)], x, app, minApp) <= 0 THEN Append(s, x)
     ELSE Append(InsertSorted(SubSeq(s, 1, Len(s) - 1), x, app, minApp),
                 s[Len(s)]) : s \in {s0}} : TRUE

RECURSIVE StableSort(_, _, _)
StableSort(s0, app, minApp) ==
  CHOOSE out \in
    {IF s = <<>> THEN <<>>
     ELSE InsertSorted(StableSort(SubSeq(s, 1, Len(s) - 1), app, minApp),
                       s[Len(s)], app, minApp) : s \in {s0}} : TRUE

----------------------------------------------------------------------------
(* randomizeTeams *)

ErrPoolTooSmall == "pool-too-small"
ErrTeamTooLarge == "team-size-not-below-pool"
ErrMinTooHigh == "min-too-high"
ErrMaxTooLow == "max-too-low"
ErrCannotSatisfy == "cannot-satisfy-constraints"
ErrInternal == "internal-team-size"
ErrMinNotMet == "min-not-satisfied"

Pending == [pending |-> TRUE]
Failure(msg) == [error |-> msg]
Success(t, a) == [teams |-> t, appearances |-> a]

IsError(r) == "error" \in DOMAIN r
IsSuccess(r) == "teams" \in DOMAIN r

\* the max check placed before the min check
validationError_MaxFirst(p) ==
  LET totalSelections == p.teamSize * p.rounds
      minTotalAppearances == p.minAppearances * Len(p.pool)
  IN  IF Len(p.pool) < 2 THEN ErrPoolTooSmall
      ELSE IF p.teamSize >= Len(p.pool) THEN ErrTeamTooLarge
      ELSE IF p.maxAppearances * Len(p.pool) < totalSelections THEN ErrMaxTooLow
      ELSE IF totalSelections < minTotalAppearances THEN ErrMinTooHigh
      ELSE ""

\* the four static checks in source order; "" when all pass
validationError(p) ==
  LET totalSelections == p.teamSize * p.rounds
      minTotalAppearances == p.minAppearances * Len(p.pool)
  IN  IF Len(p.pool) < 2 THEN ErrPoolTooSmall
      ELSE IF p.teamSize >= Len(p.pool) THEN ErrTeamTooLarge
      ELSE IF totalSelections < minTotalAppearances THEN ErrMinTooHigh
      ELSE IF p.maxAppearances * Len(p.pool) < totalSelections THEN ErrMaxTooLow
      ELSE ""

\* the max filter written with <= instead of <
eligibleOf_AllowAtMax(pool, team, app, maxApp) ==
  SelectSeq(pool, LAMBDA person : ~Includes(team, person) /\ app[person] <= maxApp)

\* the max filter off by one in the other direction
eligibleOf_StopBeforeMax(pool, team, app, maxApp) ==
  SelectSeq(pool, LAMBDA person : ~Includes(team, person) /\ app[person] + 1 < maxApp)

\* pool.filter(person => !teams[round].includes(person) && appearances[person] < max)
eligibleOf(pool, team, app, maxApp) ==
  SelectSeq(pool, LAMBDA person : ~Includes(team, person) /\ app[person] < maxApp)

\* the members exactly at the minimum put into the first group as well
underMinimumOf_AtMin(sorted, app, minApp) ==
  SelectSeq(sorted, LAMBDA person : app[person] <= minApp)

\* sortedEligible.filter(person => appearances[person] < minAppearances)
underMinimumOf(sorted, app, minApp) ==
  SelectSeq(sorted, LAMBDA person : app[person] < minApp)

\* the check failing only when nobody at all is eligible
starved_NobodyEligible(eligible, team, teamSize) ==
  Len(eligible) = 0 /\ Len(team) < teamSize

\* line 224: eligible.length < teamSize - teams[round].length
starved(eligible, team, teamSize) == Len(eligible) < teamSize - Len(team)

\* the second phase drawing from all of sortedEligible
remainingEligibleOf_NoFilter(sorted, shuffledUnder, n) == sorted

\* sortedEligible.filter(person => !shuffledUnderMinimum.slice(0, n).includes(person))
remainingEligibleOf(sorted, shuffledUnder, n) ==
  SelectSeq(sorted, LAMBDA person : ~Includes(SubSeq(shuffledUnder, 1, n), person))

\* the count goes up by two for one selection
selectPerson_CountTwice(person) ==
  /\ teams' = [teams EXCEPT ![round + 1] = Append(@, person)]
  /\ appearances' = [appearances EXCEPT ![person] = @ + 2]

\* the push without the count
selectPerson_NoCount(person) ==
  /\ teams' = [teams EXCEPT ![round + 1] = Append(@, person)]
  /\ UNCHANGED appearances

\* teams[round].push(person); appearances[person]++
selectPerson(person) ==
  /\ teams' = [teams EXCEPT ![round + 1] = Append(@, person)]
  /\ appearances' = [appearances EXCEPT ![person] = @ + 1]

Team(r) == teams[r + 1]

UnchangedLocals ==
  UNCHANGED <<sortedEligible, shuffledUnderMinimum, selectFromUnderMin,
              shuffledRemaining, selectFromRemaining, i>>

\* the whole shuffled group taken, whatever is still needed
Min_First(x, y) == x

\* at most one member taken from a group in one pass
Min_AtMostOne(x, y) == IF x < y THEN (IF x < 1 THEN x ELSE 1) ELSE (IF y < 1 THEN y ELSE 1)

\* Math.min
Min(x, y) == IF x < y THEN x ELSE y

NoErrors == [k \in {} |-> ""]

\* null: a pool name is never the empty string (the pool is filtered with
\* Boolean) and `if (replacement)` treats both alike
Null == ""

NoCall == [made |-> FALSE, currentTeam |-> <<>>, removedPerson |-> Null,
           round |-> 0, allTeams |-> <<>>, disabled |-> {}, replacement |-> Null]

\* no call has started: every local is empty
NotStarted ==
  /\ random = NoGenerator
  /\ appearances = <<>>
  /\ teams = <<>>
  /\ round = 0
  /\ sortedEligible = <<>>
  /\ shuffledUnderMinimum = <<>>
  /\ selectFromUnderMin = 0
  /\ shuffledRemaining = <<>>
  /\ selectFromRemaining = 0
  /\ i = 0
  /\ passes = 0
  /\ result = Pending
  /\ invocation = 1
  /\ previous = Pending
  /\ disabled = <<>>
  /\ entries = <<>>
  /\ originalTeams = <<>>
  /\ newTeams = <<>>
  /\ aliased = {}
  /\ errors = NoErrors
  /\ editRound = 0
  /\ toRemove = <<>>
  /\ call = NoCall
  /\ failed = <<>>
  /\ regenerated = Pending

\* userRounds as the page computes it: null, or the result of parseInt
NoRounds == [kind |-> "null"]
NaN == [kind |-> "NaN"]
Number(n) == [kind |-> "number", value |-> n]

\* parsedDate: null, or a calendar date
NoDate == [kind |-> "null"]
Date(y, m, d) == [kind |-> "date", year |-> y, month |-> m, day |-> d]

NoFrame == [pc |-> "none"]

NoGenerators ==
  /\ genSeed = 0
  /\ generators = <<>>
  /\ drawn = <<>>

NoRoundsRequest ==
  /\ parsedDate = NoDate
  /\ userRounds = NoRounds
  /\ rounds = 0

NoInterleaving ==
  /\ active = 0
  /\ parked = NoFrame
  /\ alone = Pending

NoShuffle == shuffling = [phase |-> "none"]

Init ==
  /\ params \in ParamSpace
  /\ pc = "validate"
  /\ NotStarted
  /\ NoGenerators
  /\ NoRoundsRequest
  /\ NoInterleaving
  /\ NoShuffle

\* lines 169-209: validation, then generator, appearances and teams
Validate ==
  /\ pc = "validate"
  /\ LET err == validationError(params) IN
       IF err # ""
       THEN /\ result' = Failure(err)
            /\ pc' = "done"
            /\ UNCHANGED <<random, appearances, teams, round, passes>>
       ELSE /\ random' = createRandomGenerator(params.seed)
            /\ appearances' = [person \in Range(params.pool) |-> 0]
            /\ teams' = [r \in 1..params.rounds |-> <<>>]
            /\ round' = 0
            /\ passes' = 0
            /\ pc' = "while"
            /\ UNCHANGED result
  /\ UNCHANGED <<params, invocation, previous>>
  /\ UnchangedLocals
  /\ UNCHANGED regenVars
  /\ UNCHANGED outsideVars

\* lines 215-262: head of the fill loop, eligible set, starvation check,
\* sort, under-minimum partition and its shuffle
FillPass ==
  /\ pc = "while"
  /\ IF Len(Team(round)) < params.teamSize
     THEN LET eligible == eligibleOf(params.pool, Team(round), appearances,
                                     params.maxAppearances)
          IN  IF starved(eligible, Team(round), params.teamSize)
              THEN /\ result' = Failure(ErrCannotSatisfy)
                   /\ pc' = "done"
                   /\ UNCHANGED <<random, passes>>
                   /\ UnchangedLocals
              ELSE LET sorted == StableSort(eligible, appearances,
                                            params.minAppearances)
                       remainingNeeded == params.teamSize - Len(Team(round))
                       underMinimum ==
                         underMinimumOf(sorted, appearances, params.minAppearances)
                       sh == shuffleArray(underMinimum, random)
                   IN  /\ sortedEligible' = sorted
                       /\ shuffledUnderMinimum' = sh.result
                       /\ random' = sh.random
                       /\ selectFromUnderMin' = Min(Len(sh.result), remainingNeeded)
                       /\ i' = 0
                       /\ passes' = passes + 1
                       /\ pc' = "selectUnder"
                       /\ UNCHANGED <<result, shuffledRemaining, selectFromRemaining>>
     ELSE /\ pc' = "verify"
          /\ UNCHANGED <<random, passes, result>>
          /\ UnchangedLocals
  /\ UNCHANGED <<params, appearances, teams, round, invocation, previous>>
  /\ UNCHANGED regenVars
  /\ UNCHANGED outsideVars

\* lines 264-268: one selection from the under-minimum group
SelectUnderMin ==
  /\ pc = "selectUnder"
  /\ i < selectFromUnderMin
  /\ selectPerson(shuffledUnderMinimum[i + 1])
  /\ i' = i + 1
  /\ UNCHANGED <<params, pc, random, round, sortedEligible, shuffledUnderMinimum,
                 selectFromUnderMin, shuffledRemaining, selectFromRemaining,
                 passes, result, invocation, previous>>
  /\ UNCHANGED regenVars
  /\ UNCHANGED outsideVars

\* lines 270-289: break when the team is complete, else shuffle the rest
AfterUnderMin ==
  /\ pc = "selectUnder"
  /\ i >= selectFromUnderMin
  /\ IF Len(Team(round)) >= params.teamSize
     THEN /\ pc' = "verify"
          /\ UNCHANGED <<random, shuffledRemaining, selectFromRemaining, i>>
     ELSE LET remainingEligible ==
                remainingEligibleOf(sortedEligible, shuffledUnderMinimum,
                                    selectFromUnderMin)
              sh == shuffleArray(remainingEligible, random)
              stillNeeded == params.teamSize - Len(Team(round))
          IN  /\ shuffledRemaining' = sh.result
              /\ random' = sh.random
              /\ selectFromRemaining' = Min(Len(sh.result), stillNeeded)
              /\ i' = 0
              /\ pc' = "selectRemaining"
  /\ UNCHANGED <<params, appearances, teams, round, sortedEligible,
                 shuffledUnderMinimum, selectFromUnderMin, passes, result,
                 invocation, previous>>
  /\ UNCHANGED regenVars
  /\ UNCHANGED outsideVars

\* lines 292-296: one selection from the remaining eligible participants
SelectRemaining ==
  /\ pc = "selectRemaining"
  /\ i < selectFromRemaining
  /\ selectPerson(shuffledRemaining[i + 1])
  /\ i' = i + 1
  /\ UNCHANGED <<params, pc, random, round, sortedEligible, shuffledUnderMinimum,
                 selectFromUnderMin, shuffledRemaining, selectFromRemaining,
                 passes, result, invocation, previous>>
  /\ UNCHANGED regenVars
  /\ UNCHANGED outsideVars

\* line 297: end of the loop body, back to the loop condition
EndPass ==
  /\ pc = "selectRemaining"
  /\ i >= selectFromRemaining
  /\ pc' = "while"
  /\ UNCHANGED <<params, random, appearances, teams, round, passes, result,
                 invocation, previous>>
  /\ UnchangedLocals
  /\ UNCHANGED regenVars
  /\ UNCHANGED outsideVars

\* lines 299-305: team size verification and the step of the round loop
VerifyTeam ==
  /\ pc = "verify"
  /\ IF Len(Team(round)) # params.teamSize
     THEN /\ result' = Failure(ErrInternal)
          /\ pc' = "done"
          /\ UNCHANGED <<round, passes>>
     ELSE /\ round' = round + 1
          /\ passes' = 0
          /\ pc' = IF round + 1 < params.rounds THEN "while" ELSE "minCheck"
          /\ UNCHANGED result
  /\ UNCHANGED <<params, random, appearances, teams, invocation, previous>>
  /\ UnchangedLocals
  /\ UNCHANGED regenVars
  /\ UNCHANGED outsideVars

\* the check satisfied as soon as one member reaches the minimum
minConstraintMet_Some(pool, app, minApp) ==
  \E k \in 1..Len(pool) : app[pool[k]] >= minApp

\* line 307: pool.every((person) => appearances[person] >= minAppearances)
minConstraintMet(pool, app, minApp) ==
  \A k \in 1..Len(pool) : app[pool[k]] >= minApp

\* lines 307-318: final minimum check and the successful return
MinCheck ==
  /\ pc = "minCheck"
  /\ result' = IF minConstraintMet(params.pool, appearances, params.minAppearances)
               THEN Success(teams, appearances)
               ELSE Failure(ErrMinNotMet)
  /\ pc' = "done"
  /\ UNCHANGED <<params, random, appearances, teams, round, passes,
                 invocation, previous>>
  /\ UnchangedLocals
  /\ UNCHANGED regenVars
  /\ UNCHANGED outsideVars

\* the caller runs randomizeTeams again with the same parameters
Reinvoke ==
  /\ pc = "done"
  /\ invocation < MaxInvocations
  /\ invocation' = invocation + 1
  /\ previous' = result
  /\ result' = Pending
  /\ pc' = "validate"
  /\ UNCHANGED <<params, random, appearances, teams, round, passes>>
  /\ UnchangedLocals
  /\ UNCHANGED regenVars
  /\ UNCHANGED outsideVars

----------------------------------------------------------------------------
(* the adjustment step: findReplacement and regenerateTeamsWithDisabled *)

ErrNoReplacement == "no-replacement-found"
ErrAllDisabled == "all-participants-disabled"
ErrBelowMin(minApp, count) ==
  "below-min-" \o ToString(minApp) \o "-current-" \o ToString(count)
ErrAboveMax(maxApp, count) ==
  "above-max-" \o ToString(maxApp) \o "-current-" \o ToString(count)

\* the 1-based key, as the URL writes rounds
RoundKey_OneBased(r) == "round-" \o ToString(r + 1)

\* `round-${round}`
RoundKey(r) == "round-" \o ToString(r)

\* errors[key] = message
Put(f, k, v) == [x \in (DOMAIN f) \cup {k} |-> IF x = k THEN v ELSE f[x]]

Occurrences(s, x) == Cardinality({k \in 1..Len(s) : s[k] = x})

RECURSIVE CountIn(_, _, _)
\* occurrences of person in the teams, leaving out the round `skip` (0-based;
\* -1 leaves out none)
CountIn(ts, person, skip) ==
  IF ts = <<>> THEN 0
  ELSE CountIn(SubSeq(ts, 1, Len(ts) - 1), person, skip)
       + (IF Len(ts) - 1 = skip THEN 0 ELSE Occurrences(ts[Len(ts)], person))

\* calculateAppearances: entries only for the people that appear
calculateAppearances(ts) ==
  [person \in UNION {Range(ts[r]) : r \in 1..Len(ts)} |-> CountIn(ts, person, -1)]

\* findReplacement lines 105-116: every pool member from 0, then the teams
\* of all rounds but the edited one
appearancesExcept(allTeams, rnd, pool) ==
  [person \in Range(pool) \cup
               UNION {Range(allTeams[r]) : r \in (1..Len(allTeams)) \ {rnd + 1}}
     |-> CountIn(allTeams, person, rnd)]

\* the filter admitting a candidate already at maxAppearances
replacementEligible_AllowAtMax(pool, currentTeam, removedPerson, disabledSet, app, maxApp) ==
  SelectSeq(pool, LAMBDA person :
              /\ person # removedPerson
              /\ ~Includes(currentTeam, person)
              /\ person \notin disabledSet
              /\ app[person] <= maxApp)

\* the filter without the current-team test
replacementEligible_AllowTeamMember(pool, currentTeam, removedPerson, disabledSet, app, maxApp) ==
  SelectSeq(pool, LAMBDA person :
              /\ person # removedPerson
              /\ person \notin disabledSet
              /\ app[person] < maxApp)

\* the filter without the disabled test
replacementEligible_IgnoreDisabled(pool, currentTeam, removedPerson, disabledSet, app, maxApp) ==
  SelectSeq(pool, LAMBDA person :
              /\ person # removedPerson
              /\ ~Includes(currentTeam, person)
              /\ app[person] < maxApp)

\* findReplacement lines 119-125
replacementEligible(pool, currentTeam, removedPerson, disabledSet, app, maxApp) ==
  SelectSeq(pool, LAMBDA person :
              /\ person # removedPerson
              /\ ~Includes(currentTeam, person)
              /\ person \notin disabledSet
              /\ app[person] < maxApp)

\* the eligible candidates left in pool order, without the sort
findReplacement_Unsorted(currentTeam, removedPerson, rnd, allTeams, pool, disabledSet, seed, minApp, maxApp) ==
  LET app == appearancesExcept(allTeams, rnd, pool)
      eligible == replacementEligible(pool, currentTeam, removedPerson,
                                      disabledSet, app, maxApp)
  IN  IF Len(eligible) = 0 THEN Null
      ELSE LET sorted == eligible
               g == Draw(createRandomGenerator(seed + rnd))
               topCandidates ==
                 SelectSeq(sorted, LAMBDA person : app[person] = app[sorted[1]])
               randomIndex == FloorMul(g.state, Len(topCandidates))
           IN  topCandidates[randomIndex + 1]

\* findReplacement lines 94-149
findReplacement(currentTeam, removedPerson, rnd, allTeams, pool, disabledSet, seed, minApp, maxApp) ==
  LET app == appearancesExcept(allTeams, rnd, pool)
      eligible == replacementEligible(pool, currentTeam, removedPerson,
                                      disabledSet, app, maxApp)
  IN  IF Len(eligible) = 0 THEN Null
      ELSE LET sorted == StableSort(eligible, app, minApp)
               g == Draw(createRandomGenerator(seed + rnd))
               topCandidates ==
                 SelectSeq(sorted, LAMBDA person : app[person] = app[sorted[1]])
               randomIndex == FloorMul(g.state, Len(topCandidates))
           IN  topCandidates[randomIndex + 1]

\* currentTeam.indexOf(person), 1-based; 0 when absent
IndexOf(s, x) ==
  IF Includes(s, x)
  THEN CHOOSE k \in 1..Len(s) : s[k] = x /\ \A m \in 1..(k - 1) : s[m] # x
  ELSE 0

\* currentTeam.pop(): the last member goes instead of the one at idx
Splice_Last(s, k) == SubSeq(s, 1, Len(s) - 1)

\* currentTeam.splice(idx, 1)
Splice(s, k) == SubSeq(s, 1, k - 1) \o SubSeq(s, k + 1, Len(s))

RECURSIVE SetsUpTo(_, _)
SetsUpTo(S, k) ==
  IF k = 0 THEN {{}}
  ELSE LET smaller == SetsUpTo(S, k - 1)
       IN  smaller \cup {A \cup {x} : A \in smaller, x \in S}

\* disabledParticipants as parsed from the URL: a non-empty record from round
\* indices (one of them past the last round) to non-empty sets of names
DisabledChoices(p) ==
  LET pairs == (0..p.rounds) \X Range(p.pool)
  IN  {[k \in {pr[1] : pr \in D} |-> {pr[2] : pr \in {q \in D : q[1] = k}}] :
          D \in SetsUpTo(pairs, MaxDisabled) \ {{}}}

RECURSIVE Ascending(_)
\* Object.entries lists integer keys in ascending order
Ascending(S) ==
  IF S = {} THEN <<>>
  ELSE LET m == CHOOSE x \in S : \A y \in S : x <= y
       IN  <<m>> \o Ascending(S \ {m})

\* a copy of the outer array only: every round is still the caller's array
copyTeams_Shallow(ts) == [rounds |-> ts, aliased |-> 1..Len(ts)]

\* originalTeams.map((team) => [...team]): every round is a fresh array
copyTeams(ts) == [rounds |-> ts, aliased |-> {}]

\* page.tsx 427-435 and 160-161: the call and the copy of the teams
StartRegenerate ==
  /\ pc = "done"
  /\ IsSuccess(result)
  \* a lone call takes any disabled sets, interleaved calls the same ones
  /\ \E d \in (IF active = 0 THEN DisabledChoices(params) ELSE {disabled}) :
       /\ disabled' = d
       /\ entries' = Ascending(DOMAIN d)
  /\ originalTeams' = result.teams
  /\ newTeams' = copyTeams(result.teams).rounds
  /\ aliased' = copyTeams(result.teams).aliased
  /\ errors' = NoErrors
  /\ editRound' = 0
  /\ toRemove' = <<>>
  /\ call' = NoCall
  /\ failed' = [r \in 0..(Len(result.teams) - 1) |-> 0]
  /\ regenerated' = Pending
  /\ pc' = "entries"
  /\ UNCHANGED <<params, random, appearances, teams, round, passes, result,
                 invocation, previous>>
  /\ UnchangedLocals
  /\ UNCHANGED outsideVars

\* lines 164-170: one entry of disabled, its round and the members to remove
ProcessEntry ==
  /\ pc = "entries"
  /\ entries # <<>>
  /\ LET rnd == Head(entries) IN
       IF rnd \notin 0..(Len(newTeams) - 1)
       THEN /\ pc' = "entries"
            /\ UNCHANGED <<editRound, toRemove>>
       ELSE LET currentTeam == newTeams[rnd + 1]
                rem == SelectSeq(currentTeam, LAMBDA person : person \in disabled[rnd])
            IN  /\ editRound' = rnd
                /\ toRemove' = rem
                /\ pc' = IF rem = <<>> THEN "entries" ELSE "remove"
  /\ entries' = Tail(entries)
  /\ UNCHANGED <<disabled, originalTeams, newTeams, aliased, errors, call,
                 failed, regenerated>>
  /\ UNCHANGED <<params, random, appearances, teams, round, passes, result,
                 invocation, previous>>
  /\ UnchangedLocals
  /\ UNCHANGED outsideVars

\* lines 172-196: one removal and its replacement
RemoveDisabled ==
  /\ pc = "remove"
  /\ toRemove # <<>>
  /\ LET person == Head(toRemove)
         currentTeam == newTeams[editRound + 1]
         idx == IndexOf(currentTeam, person)
     IN  IF idx # 0
         THEN LET spliced == Splice(currentTeam, idx)
                  teamsAfter == [newTeams EXCEPT ![editRound + 1] = spliced]
                  replacement ==
                    findReplacement(spliced, person, editRound, teamsAfter,
                                    params.pool, disabled[editRound], params.seed,
                                    params.minAppearances, params.maxAppearances)
              IN  /\ call' = [made |-> TRUE, currentTeam |-> spliced,
                              removedPerson |-> person, round |-> editRound,
                              allTeams |-> teamsAfter,
                              disabled |-> disabled[editRound],
                              replacement |-> replacement]
                  /\ IF replacement # Null
                     THEN /\ newTeams' = [teamsAfter EXCEPT ![editRound + 1] =
                                                       Append(spliced, replacement)]
                          /\ UNCHANGED <<errors, failed>>
                     ELSE /\ newTeams' = teamsAfter
                          /\ errors' = Put(errors, RoundKey(editRound), ErrNoReplacement)
                          /\ failed' = [failed EXCEPT ![editRound] = @ + 1]
         ELSE UNCHANGED <<call, newTeams, errors, failed>>
  \* splice and push act on the array object, whoever else holds it
  /\ originalTeams' = IF (editRound + 1) \in aliased
                      THEN [originalTeams EXCEPT ![editRound + 1] =
                                                   newTeams'[editRound + 1]]
                      ELSE originalTeams
  /\ toRemove' = Tail(toRemove)
  /\ pc' = IF Tail(toRemove) = <<>> THEN "entries" ELSE "remove"
  /\ UNCHANGED <<disabled, entries, aliased, editRound, regenerated>>
  /\ UNCHANGED <<params, random, appearances, teams, round, passes, result,
                 invocation, previous>>
  /\ UnchangedLocals
  /\ UNCHANGED outsideVars

\* the upper test with >= in place of >
personError_AtMax(count, minApp, maxApp) ==
  IF count < minApp THEN ErrBelowMin(minApp, count)
  ELSE IF count >= maxApp THEN ErrAboveMax(maxApp, count)
  ELSE Null

\* lines 203-209: the message for one person's count, Null for none
personError(count, minApp, maxApp) ==
  IF count < minApp THEN ErrBelowMin(minApp, count)
  ELSE IF count > maxApp THEN ErrAboveMax(maxApp, count)
  ELSE Null

RECURSIVE personErrors(_, _, _, _, _)
\* lines 201-210, pool.forEach
personErrors(errs, pool, app, minApp, maxApp) ==
  IF pool = <<>> THEN errs
  ELSE LET person == Head(pool)
           count == IF person \in DOMAIN app THEN app[person] ELSE 0
           msg == personError(count, minApp, maxApp)
           e == IF msg # Null THEN Put(errs, person, msg) ELSE errs
       IN  personErrors(e, Tail(pool), app, minApp, maxApp)

\* the disabled set looked up under the 1-based round number of the URL
disabledForRound_OneBased(d, rnd) == IF (rnd + 1) \in DOMAIN d THEN d[rnd + 1] ELSE {}

\* line 214: disabled[roundIndex] || []
disabledForRound(d, rnd) == IF rnd \in DOMAIN d THEN d[rnd] ELSE {}

RECURSIVE roundErrors(_, _, _, _)
\* lines 213-219, newTeams.forEach; rnd is the next round index
roundErrors(errs, rnd, nRounds, pool) ==
  IF rnd >= nRounds THEN errs
  ELSE LET roundDisabled == disabledForRound(disabled, rnd)
           availableCount == Len(SelectSeq(pool, LAMBDA q : q \notin roundDisabled))
           e == IF availableCount = 0 THEN Put(errs, RoundKey(rnd), ErrAllDisabled)
                ELSE errs
       IN  roundErrors(e, rnd + 1, nRounds, pool)

\* lines 199-221: the two validation passes and the return
ValidateConstraints ==
  /\ pc = "entries"
  /\ entries = <<>>
  /\ LET app == calculateAppearances(newTeams)
         e1 == personErrors(errors, params.pool, app, params.minAppearances,
                            params.maxAppearances)
         e2 == roundErrors(e1, 0, Len(newTeams), params.pool)
     IN  /\ errors' = e2
         /\ regenerated' = [teams |-> newTeams, errors |-> e2, appearances |-> app]
  /\ pc' = "regenDone"
  /\ UNCHANGED <<disabled, entries, originalTeams, newTeams, aliased, editRound,
                 toRemove, call, failed>>
  /\ UNCHANGED <<params, random, appearances, teams, round, passes, result,
                 invocation, previous>>
  /\ UnchangedLocals
  /\ UNCHANGED outsideVars

Next ==
  \/ Validate
  \/ FillPass
  \/ SelectUnderMin
  \/ AfterUnderMin
  \/ SelectRemaining
  \/ EndPass
  \/ VerifyTeam
  \/ MinCheck
  \/ Reinvoke

Spec == Init /\ [][Next]_vars

\* the runs that are followed by an adjustment
InitRegen ==
  /\ Init
  /\ Len(params.pool) * params.rounds <= MaxCells

NextRegen ==
  \/ Validate
  \/ FillPass
  \/ SelectUnderMin
  \/ AfterUnderMin
  \/ SelectRemaining
  \/ EndPass
  \/ VerifyTeam
  \/ MinCheck
  \/ StartRegenerate
  \/ ProcessEntry
  \/ RemoveDisabled
  \/ ValidateConstraints

SpecRegen == InitRegen /\ [][NextRegen]_vars

----------------------------------------------------------------------------
(* two callers of createRandomGenerator, each drawing from its own closure *)

MaxDraws == 3

\* the seeds of the runs and their negatives (parseInt accepts a sign)
GeneratorSeeds == Seeds \cup {0 - s : s \in Seeds}

\* `let state` kept outside the closure: one state behind every closure
callGenerator_SharedState(gs, id) == [k \in DOMAIN gs |-> Draw(gs[id])]

\* one call of closure id: lines 43-50 advance the state captured by it
callGenerator(gs, id) == [gs EXCEPT ![id] = Draw(gs[id])]

InitGenerators ==
  /\ genSeed \in GeneratorSeeds
  /\ generators = [id \in 1..2 |-> createRandomGenerator(genSeed)]
  /\ drawn = [id \in 1..2 |-> <<>>]
  /\ params = CHOOSE p \in ParamSpace : TRUE
  /\ pc = "idle"
  /\ NotStarted
  /\ NoRoundsRequest
  /\ NoInterleaving
  /\ NoShuffle

\* closure id is called once and returns (state >>> 0) / 4294967296
DrawNext(id) ==
  /\ pc = "idle"
  /\ generators # <<>>
  /\ Len(drawn[id]) < MaxDraws
  /\ generators' = callGenerator(generators, id)
  /\ drawn' = [drawn EXCEPT ![id] = Append(@, generators'[id].state)]
  /\ UNCHANGED <<genSeed, roundsVars, interleaveVars, randomizeVars, regenVars,
                 shuffling>>

DrawFirst == DrawNext(1)

DrawSecond == DrawNext(2)

NextGenerators ==
  \/ DrawFirst
  \/ DrawSecond

SpecGenerators == InitGenerators /\ [][NextGenerators]_vars

----------------------------------------------------------------------------
(* two invocations with the same inputs, interleaved step by step *)

MaxInterleaveCells == 4      \* pool size * rounds of the interleaved runs
MaxInterleaveDisabled == 1   \* disabled (round, person) pairs of these runs

\* the seeds of the interleaved runs: the documented one and the numeric one
InterleaveSeeds == {42, 123456}

\* the (round, person) pairs of disabledParticipants
DisabledPairs(d) == UNION {{<<k, person>> : person \in d[k]} : k \in DOMAIN d}

\* the locals of the running invocation
CurrentFrame ==
  [pc |-> pc, random |-> random, appearances |-> appearances, teams |-> teams,
   round |-> round, sortedEligible |-> sortedEligible,
   shuffledUnderMinimum |-> shuffledUnderMinimum,
   selectFromUnderMin |-> selectFromUnderMin,
   shuffledRemaining |-> shuffledRemaining,
   selectFromRemaining |-> selectFromRemaining, i |-> i, passes |-> passes,
   result |-> result, entries |-> entries, originalTeams |-> originalTeams,
   newTeams |-> newTeams, aliased |-> aliased, errors |-> errors,
   editRound |-> editRound, toRemove |-> toRemove, call |-> call,
   failed |-> failed, regenerated |-> regenerated]

\* the locals of an invocation that has not run yet
FreshFrame ==
  [pc |-> "validate", random |-> NoGenerator, appearances |-> <<>>,
   teams |-> <<>>, round |-> 0, sortedEligible |-> <<>>,
   shuffledUnderMinimum |-> <<>>, selectFromUnderMin |-> 0,
   shuffledRemaining |-> <<>>, selectFromRemaining |-> 0, i |-> 0,
   passes |-> 0, result |-> Pending, entries |-> <<>>, originalTeams |-> <<>>,
   newTeams |-> <<>>, aliased |-> {}, errors |-> NoErrors, editRound |-> 0,
   toRemove |-> <<>>, call |-> NoCall, failed |-> <<>>, regenerated |-> Pending]

\* a generator kept at module level: the resumed invocation finds the state
\* the other invocation left
resumedGenerator_ModuleLevel(frame) == random

\* line 197: `random` is a local of the invocation
resumedGenerator(frame) == frame.random

\* the locals of frame become the current ones
Resume(frame) ==
  /\ pc' = frame.pc
  /\ random' = resumedGenerator(frame)
  /\ appearances' = frame.appearances
  /\ teams' = frame.teams
  /\ round' = frame.round
  /\ sortedEligible' = frame.sortedEligible
  /\ shuffledUnderMinimum' = frame.shuffledUnderMinimum
  /\ selectFromUnderMin' = frame.selectFromUnderMin
  /\ shuffledRemaining' = frame.shuffledRemaining
  /\ selectFromRemaining' = frame.selectFromRemaining
  /\ i' = frame.i
  /\ passes' = frame.passes
  /\ result' = frame.result
  /\ entries' = frame.entries
  /\ originalTeams' = frame.originalTeams
  /\ newTeams' = frame.newTeams
  /\ aliased' = frame.aliased
  /\ errors' = frame.errors
  /\ editRound' = frame.editRound
  /\ toRemove' = frame.toRemove
  /\ call' = frame.call
  /\ failed' = frame.failed
  /\ regenerated' = frame.regenerated

\* randomizeTeams returned an error, or the adjustment of its teams returned
Finished(frame) ==
  \/ frame.pc = "regenDone"
  \/ frame.pc = "done" /\ IsError(frame.result)

InitInterleave ==
  /\ Init
  /\ Len(params.pool) * params.rounds <= MaxInterleaveCells
  /\ params.seed \in InterleaveSeeds

\* the lone invocation has returned; two invocations with its inputs begin
Fork ==
  /\ active = 0
  /\ Finished(CurrentFrame)
  /\ Cardinality(DisabledPairs(disabled)) <= MaxInterleaveDisabled
  /\ alone' = [result |-> result, regenerated |-> regenerated]
  /\ active' = 1
  /\ parked' = FreshFrame
  /\ Resume(FreshFrame)
  /\ UNCHANGED <<params, disabled, invocation, previous, generatorVars, roundsVars,
                 shuffling>>

\* the running invocation is suspended and the other one continues
Switch ==
  /\ active \in {1, 2}
  /\ ~Finished(parked)
  /\ active' = 3 - active
  /\ parked' = CurrentFrame
  /\ Resume(parked)
  /\ UNCHANGED <<params, disabled, invocation, previous, alone, generatorVars,
                 roundsVars, shuffling>>

NextInterleave ==
  \/ Validate
  \/ FillPass
  \/ SelectUnderMin
  \/ AfterUnderMin
  \/ SelectRemaining
  \/ EndPass
  \/ VerifyTeam
  \/ MinCheck
  \/ StartRegenerate
  \/ ProcessEntry
  \/ RemoveDisabled
  \/ ValidateConstraints
  \/ Fork
  \/ Switch

SpecInterleave == InitInterleave /\ [][NextInterleave]_vars

----------------------------------------------------------------------------
(* determineRounds *)

MaxDays == 14

\* the days of January 2025 that a date seed 202501dd names
Dates == {Date(2025, 1, d) : d \in 1..MaxDays}

\* what parseInt(roundsParam, 10) can give, or null without the parameter
UserRoundsChoices ==
  {NoRounds, NaN} \cup {Number(n) : n \in (-1)..MaxRounds}

\* dayjs(parsedDate).day() for a Gregorian date: 0 = Sunday .. 6 = Saturday
DayOfWeek(date) ==
  LET offset == <<0, 3, 2, 5, 0, 3, 5, 1, 4, 6, 2, 4>>
      y == IF date.month < 3 THEN date.year - 1 ELSE date.year
  IN  (y + (y \div 4) - (y \div 100) + (y \div 400)
         + offset[date.month] + date.day) % 7

\* the test userRounds >= 0 in place of userRounds > 0
determineRounds_NonNegative(date, requested) ==
  IF requested.kind # "null" /\ (requested.kind = "number" /\ requested.value >= 0)
  THEN requested.value
  ELSE IF date.kind = "null" THEN 1
  ELSE LET dayOfWeek == DayOfWeek(date)
       IN  IF dayOfWeek = 0 \/ dayOfWeek = 6 THEN 2 ELSE 3

\* lines 118-139; a comparison with NaN is false
determineRounds(date, requested) ==
  IF requested.kind # "null" /\ (requested.kind = "number" /\ requested.value > 0)
  THEN requested.value
  ELSE IF date.kind = "null" THEN 1
  ELSE LET dayOfWeek == DayOfWeek(date)
       IN  IF dayOfWeek = 0 \/ dayOfWeek = 6 THEN 2 ELSE 3

InitRounds ==
  /\ parsedDate \in {NoDate} \cup Dates
  /\ userRounds \in UserRoundsChoices
  /\ rounds = 0
  /\ params = CHOOSE p \in ParamSpace : TRUE
  /\ pc = "determine"
  /\ NotStarted
  /\ NoGenerators
  /\ NoInterleaving
  /\ NoShuffle

\* page.tsx line 370: rounds = determineRounds(parsedDate, userRounds)
DetermineRounds ==
  /\ pc = "determine"
  /\ rounds' = determineRounds(parsedDate, userRounds)
  /\ pc' = "determined"
  /\ UNCHANGED <<parsedDate, userRounds, params, random, appearances, teams,
                 round, passes, result, invocation, previous>>
  /\ UnchangedLocals
  /\ UNCHANGED <<regenVars, generatorVars, interleaveVars, shuffling>>

NextRounds == DetermineRounds

SpecRounds == InitRounds /\ [][NextRounds]_vars

----------------------------------------------------------------------------
(* Properties of randomizeTeams *)

Returned == result # Pending

\* the valid RandomizationParams of the data model
ValidParams(p) ==
  /\ Len(p.pool) >= 2
  /\ Distinct(p.pool)
  /\ 1 <= p.teamSize /\ p.teamSize < Len(p.pool)
  /\ p.rounds >= 1
  /\ 0 <= p.minAppearances /\ p.minAppearances <= p.maxAppearances
  /\ p.maxAppearances >= 1

RECURSIVE SumCounts(_, _)
SumCounts(app, pool) ==
  IF pool = <<>> THEN 0 ELSE app[Head(pool)] + SumCounts(app, Tail(pool))

WellFormedTeams(t, p) ==
  /\ Len(t) = p.rounds
  /\ \A r \in 1..Len(t) :
       /\ Len(t[r]) = p.teamSize
       /\ Distinct(t[r])
       /\ Range(t[r]) \subseteq Range(p.pool)

\* C1: for valid parameters a returned value is either an error carrying no
\* teams, or teams with exactly `rounds` rounds, each of exactly teamSize
\* pairwise-distinct pool members.
C1_ErrorOrWellFormedTeams ==
  (Returned /\ ValidParams(params)) =>
     \/ IsError(result) /\ ~IsSuccess(result)
     \/ IsSuccess(result) /\ ~IsError(result) /\ WellFormedTeams(result.teams, params)

C1_Witness ==
  /\ ValidParams(params) /\ IsSuccess(result)
  /\ params.rounds >= 2 /\ params.teamSize >= 2
  /\ params.minAppearances >= 1

\* C2: in a successful result every pool member's count lies in
\* [minAppearances, maxAppearances].
C2_CountsWithinBounds ==
  IsSuccess(result) =>
     \A k \in 1..Len(params.pool) :
        /\ params.minAppearances <= result.appearances[params.pool[k]]
        /\ result.appearances[params.pool[k]] <= params.maxAppearances

C2_Witness ==
  /\ IsSuccess(result)
  /\ 1 <= params.minAppearances /\ params.minAppearances < params.maxAppearances
  /\ \E k \in 1..Len(params.pool) :
        result.appearances[params.pool[k]] = params.maxAppearances
  /\ \E k \in 1..Len(params.pool) :
        result.appearances[params.pool[k]] = params.minAppearances

\* C3: in a successful result the appearance counts sum to teamSize * rounds.
C3_CountsSumToSelections ==
  IsSuccess(result) =>
     SumCounts(result.appearances, params.pool) = params.teamSize * params.rounds

C3_Witness ==
  /\ IsSuccess(result)
  /\ params.teamSize * params.rounds >= 6
  /\ params.minAppearances >= 1

\* C4: a second call with the same pool, teamSize, rounds, min, max and seed
\* returns the same value as the first (same teams in the same order and
\* same appearances, or the same error).
C4_SameParamsSameResult ==
  (previous # Pending /\ Returned) => result = previous

C4_Witness ==
  /\ invocation = 2
  /\ IsSuccess(previous) /\ IsSuccess(result)
  /\ params.rounds >= 2 /\ Len(params.pool) >= 4 /\ params.seed = 42

\* C5: pool of 3, teamSize 2, rounds 5, min 3, max 4 succeeds for every
\* seed, with every count between 3 and 4.
C5_ScenarioAlwaysSucceeds ==
  (/\ Returned
   /\ Len(params.pool) = 3 /\ params.teamSize = 2 /\ params.rounds = 5
   /\ params.minAppearances = 3 /\ params.maxAppearances = 4)
  => /\ IsSuccess(result)
     /\ \A k \in 1..3 : result.appearances[params.pool[k]] \in 3..4

\* C6: the four static checks are evaluated in the order pool size, team
\* size, min too high, max too low; the first failing one decides the
\* error, the four messages differ, and no generator has been created and
\* no value drawn when one of them fails.
C6_StaticChecksInOrder ==
  Returned =>
    LET n == Len(params.pool)
        total == params.teamSize * params.rounds
        c1 == n < 2
        c2 == params.teamSize >= n
        c3 == total < params.minAppearances * n
        c4 == params.maxAppearances * n < total
    IN  /\ c1 => result = Failure(ErrPoolTooSmall)
        /\ (~c1 /\ c2) => result = Failure(ErrTeamTooLarge)
        /\ (~c1 /\ ~c2 /\ c3) => result = Failure(ErrMinTooHigh)
        /\ (~c1 /\ ~c2 /\ ~c3 /\ c4) => result = Failure(ErrMaxTooLow)
        /\ (c1 \/ c2 \/ c3 \/ c4) => (~random.created /\ random.calls = 0)
        /\ Cardinality({ErrPoolTooSmall, ErrTeamTooLarge, ErrMinTooHigh,
                        ErrMaxTooLow}) = 4

\* both the min check and the max check fail; the min error is reported
C6_Witness ==
  /\ result = Failure(ErrMinTooHigh)
  /\ params.maxAppearances * Len(params.pool) < params.teamSize * params.rounds
  /\ params.teamSize >= 1

C8_DefaultBoundsAlwaysSucceed ==
  (/\ Returned
   /\ Len(params.pool) >= 2
   /\ 1 <= params.teamSize /\ params.teamSize < Len(params.pool)
   /\ params.minAppearances = 0 /\ params.maxAppearances >= params.rounds)
  => /\ IsSuccess(result)
     /\ (params.teamSize = Len(params.pool) - 1 /\ params.rounds = 1) =>
           Cardinality(Range(params.pool) \ Range(result.teams[1])) = 1

C8_Witness ==
  /\ IsSuccess(result)
  /\ Len(params.pool) = 4 /\ params.teamSize = 3 /\ params.rounds = 1
  /\ params.minAppearances = 0 /\ params.maxAppearances = 1

----------------------------------------------------------------------------
(* Properties of the adjustment step *)

\* rounds other than the edited one whose team contains the person
RoundsWith(allTeams, rnd, person) ==
  Cardinality({r \in 1..Len(allTeams) : r # rnd + 1 /\ person \in Range(allTeams[r])})

\* the pool members that satisfy the four conditions, for the arguments c of
\* a findReplacement call
Candidates(c) ==
  {q \in Range(params.pool) :
     /\ q # c.removedPerson
     /\ q \notin Range(c.currentTeam)
     /\ q \notin c.disabled
     /\ RoundsWith(c.allTeams, c.round, q) < params.maxAppearances}

\* C9: findReplacement returns a pool member only if it is not the removed
\* person, not in the current team, not disabled for the round and below
\* maxAppearances over the other rounds; it returns null exactly when no
\* pool member qualifies; a single qualifying member is the one returned.
C9_ReplacementIsEligible ==
  call.made =>
    /\ (call.replacement = Null) <=> (Candidates(call) = {})
    /\ (call.replacement # Null) => call.replacement \in Candidates(call)
    /\ (Cardinality(Candidates(call)) = 1) => Candidates(call) = {call.replacement}

\* one round, a team of 4 from a pool of 5, one in-team member disabled
C9_Witness ==
  /\ call.made
  /\ Len(params.pool) = 5 /\ params.teamSize = 4 /\ params.rounds = 1
  /\ DOMAIN disabled = {0} /\ Cardinality(disabled[0]) = 1
  /\ call.removedPerson \in disabled[0]
  /\ Range(params.pool) \ Range(result.teams[1]) = {call.replacement}

\* C10: a removal without eligible replacement records an error under
\* round-<r> and shortens the team by one, a removal with a replacement keeps
\* the length; so every round's length is its original length minus its
\* failed replacements, and a shortened round has a round-level error.
C10_LengthAndRoundErrors ==
  (pc \in {"entries", "remove", "regenDone"}) =>
    \A r \in 0..(Len(newTeams) - 1) :
      /\ Len(newTeams[r + 1]) = Len(result.teams[r + 1]) - failed[r]
      /\ (Len(newTeams[r + 1]) < Len(result.teams[r + 1])) =>
            ("round-" \o ToString(r)) \in DOMAIN errors
      /\ (pc = "regenDone") =>
            /\ regenerated.teams = newTeams
            /\ regenerated.errors = errors

C10_RemovalStep ==
  (pc = "remove" /\ call' # call) =>
    LET r == editRound
        key == "round-" \o ToString(r)
    IN  /\ call'.round = r
        /\ (Candidates(call') = {}) =>
              /\ Len(newTeams'[r + 1]) = Len(newTeams[r + 1]) - 1
              /\ key \in DOMAIN errors' /\ errors'[key] = ErrNoReplacement
              /\ failed'[r] = failed[r] + 1
        /\ (Candidates(call') # {}) =>
              /\ Len(newTeams'[r + 1]) = Len(newTeams[r + 1])
              /\ failed'[r] = failed[r]

\* C10: both parts together, the lengths and round errors in every state and
\* the effect of each single removal.
C10_RemovalsAndErrors == [](C10_LengthAndRoundErrors) /\ [][C10_RemovalStep]_vars

\* every candidate left outside the team is blocked by maxAppearances only
C10_Witness ==
  /\ pc = "regenDone"
  /\ call.made /\ call.replacement = Null
  /\ Range(params.pool) \ (Range(call.currentTeam) \cup call.disabled) # {}
  /\ Len(regenerated.teams[call.round + 1]) = params.teamSize - 1
  /\ regenerated.errors[RoundKey(call.round)] = ErrNoReplacement

\* C11: regenerateTeamsWithDisabled never mutates originalTeams: during and
\* after the call every round of the array handed in has the members it had
\* before the call, in the same order; removals and appends reach the copy
\* only.
C11_OriginalTeamsUntouched ==
  (pc \in {"entries", "remove", "regenDone"}) =>
    /\ originalTeams = result.teams
    /\ aliased = {}

\* a member was replaced and another removed without replacement
C11_Witness ==
  /\ pc = "regenDone"
  /\ \E r \in 1..Len(originalTeams) :
        /\ Len(regenerated.teams[r]) = Len(originalTeams[r])
        /\ regenerated.teams[r] # originalTeams[r]
  /\ \E r \in 1..Len(originalTeams) :
        Len(regenerated.teams[r]) < Len(originalTeams[r])

\* the candidates of a findReplacement call c with the fewest appearances
\* over the rounds other than the edited one, in pool order
FewestCandidates(c) ==
  SelectSeq(params.pool, LAMBDA q :
              /\ q \in Candidates(c)
              /\ \A o \in Candidates(c) :
                    RoundsWith(c.allTeams, c.round, q) <=
                      RoundsWith(c.allTeams, c.round, o))

\* C12: the replacement has the minimum appearance count, over all rounds
\* but the edited one, among the eligible candidates; of the k candidates
\* sharing that minimum, listed in pool order, the one at index floor(d * k)
\* is chosen, d being the first draw of a fresh generator seeded with
\* seed + round index.
C12_FewestAppearancesThenDraw ==
  (call.made /\ call.replacement # Null) =>
    LET top == FewestCandidates(call)
        d == XorShift(ToBits(params.seed + call.round))
    IN  /\ \A o \in Candidates(call) :
              RoundsWith(call.allTeams, call.round, call.replacement) <=
                RoundsWith(call.allTeams, call.round, o)
        /\ call.replacement = top[FloorMul(d, Len(top)) + 1]

\* a round after the first, three candidates of which two share the minimum,
\* and the draw picks the second of them
C12_Witness ==
  /\ call.made /\ call.replacement # Null
  /\ call.round >= 1
  /\ Cardinality(Candidates(call)) > Len(FewestCandidates(call))
  /\ Len(FewestCandidates(call)) >= 2
  /\ call.replacement = FewestCandidates(call)[2]

\* rounds of the teams ts that contain the person
RoundsContaining(ts, person) ==
  Cardinality({r \in 1..Len(ts) : person \in Range(ts[r])})

\* C13: after regenerateTeamsWithDisabled, errors has a key for a pool
\* member exactly when the member's count in the resulting teams is below
\* minAppearances or above maxAppearances; a member of no round counts 0.
C13_PersonErrorIffOutOfBounds ==
  (pc = "regenDone") =>
    \A k \in 1..Len(params.pool) :
      LET person == params.pool[k]
          count == RoundsContaining(regenerated.teams, person)
      IN  (person \in DOMAIN regenerated.errors) <=>
            (count < params.minAppearances \/ count > params.maxAppearances)

\* one member fell below the minimum, one is exactly at the maximum, one
\* is in no round at all
C13_Witness ==
  /\ pc = "regenDone"
  /\ params.minAppearances >= 1
  /\ \E k \in 1..Len(params.pool) :
        /\ params.pool[k] \in DOMAIN regenerated.errors
        /\ RoundsContaining(regenerated.teams, params.pool[k]) = 0
  /\ \E k \in 1..Len(params.pool) :
        /\ params.pool[k] \notin DOMAIN regenerated.errors
        /\ RoundsContaining(regenerated.teams, params.pool[k]) = params.maxAppearances

\* C14: for every round of the teams, if every pool member is in the round's
\* disabled set the error under the round's key is the all-disabled one, in
\* place of any no-replacement error recorded before; if some pool member is
\* not disabled for the round, the all-disabled error is not reported for it.
C14_AllDisabledError ==
  (pc = "regenDone") =>
    \A r \in 0..(Len(regenerated.teams) - 1) :
      LET key == "round-" \o ToString(r)
          off == IF r \in DOMAIN disabled THEN disabled[r] ELSE {}
          reported == /\ key \in DOMAIN regenerated.errors
                      /\ regenerated.errors[key] = ErrAllDisabled
      IN  reported <=> (Range(params.pool) \subseteq off)

\* the whole pool is disabled in a round whose removal found no replacement,
\* next to a round where nobody is disabled
C14_Witness ==
  /\ pc = "regenDone"
  /\ Len(regenerated.teams) >= 2
  /\ \E r \in DOMAIN disabled :
        /\ r < Len(regenerated.teams)
        /\ Range(params.pool) \subseteq disabled[r]
        /\ failed[r] >= 1
        /\ regenerated.errors["round-" \o ToString(r)] = ErrAllDisabled

\* C15: the appearances returned by regenerateTeamsWithDisabled have an entry
\* for every pool member, members of no round included with count 0, and each
\* entry is the number of rounds of the returned teams containing the member.
C15_AppearancesCoverPool ==
  (pc = "regenDone") =>
    \A k \in 1..Len(params.pool) :
      /\ params.pool[k] \in DOMAIN regenerated.appearances
      /\ regenerated.appearances[params.pool[k]] =
           RoundsContaining(regenerated.teams, params.pool[k])

----------------------------------------------------------------------------
(* Properties of createRandomGenerator *)

\* C16: two generators created independently with the same seed return the
\* same k-th value for every k, however their calls are interleaved: the
\* value depends on the seed and k only.
C16_SameSeedSameStream ==
  (generators # <<>>) =>
    /\ \A k \in 1..Min(Len(drawn[1]), Len(drawn[2])) : drawn[1][k] = drawn[2][k]
    /\ \A id \in 1..2 :
         /\ generators[id].calls = Len(drawn[id])
         /\ Len(drawn[id]) >= 1 => generators[id].state = drawn[id][Len(drawn[id])]

\* the second closure was called before the first one had finished, and the
\* stream is not constant
C16_Witness ==
  /\ generators # <<>>
  /\ Len(drawn[1]) = MaxDraws /\ Len(drawn[2]) = MaxDraws - 1
  /\ generators[1].state # generators[2].state
  /\ drawn[1][1] # drawn[1][2]

\* exclusive or of two numbers below 2^16, bit by bit
RECURSIVE BitXor(_, _)
BitXor(a, b) ==
  IF a = 0 /\ b = 0 THEN 0
  ELSE ((a + b) % 2) + 2 * BitXor(a \div 2, b \div 2)

\* a 32-bit unsigned number as <<high half, low half>>; the shifts by
\* multiplication and division, reduced modulo 2^32
HalvesShl(x, k) ==
  <<((x[1] * (2 ^ k)) + ((x[2] * (2 ^ k)) \div 65536)) % 65536,
    (x[2] * (2 ^ k)) % 65536>>

HalvesShr17(x) == <<0, x[1] \div 2>>

HalvesXor(x, y) == <<BitXor(x[1], y[1]), BitXor(x[2], y[2])>>

\* s -> s xor (s << 13) -> s xor (s >>> 17) -> s xor (s << 5)
HalvesStep(x) ==
  LET s1 == HalvesXor(x, HalvesShl(x, 13))
      s2 == HalvesXor(s1, HalvesShr17(s1))
  IN  HalvesXor(s2, HalvesShl(s2, 5))

\* s_0 = seed mod 2^32, s_k = the step applied to s_(k-1)
RECURSIVE StateAfter(_, _)
StateAfter(seed, k) ==
  IF k = 0 THEN <<(seed \div 65536) % 65536, seed % 65536>>
  ELSE HalvesStep(StateAfter(seed, k - 1))

\* C17: the k-th draw is s_k / 2^32 with s_0 = seed mod 2^32 and s_k the
\* xorshift step (<< 13, >>> 17, << 5) on 32-bit unsigned values; so every
\* draw is in [0, 1), a seed gives the stream of its residue modulo 2^32 (a
\* negative seed that of seed + 2^32), and seed 0 gives only zeros.
C17_XorshiftStream ==
  (generators # <<>>) =>
    \A id \in 1..2 : \A k \in 1..Len(drawn[id]) :
      /\ <<Hi16(drawn[id][k]), Lo16(drawn[id][k])>> = StateAfter(genSeed, k)
      /\ drawn[id][k] \subseteq 0..31
      /\ (genSeed = 0) => drawn[id][k] = {}

\* a negative seed, and a state with the top bit set before the right shift
C17_Witness ==
  /\ generators # <<>>
  /\ genSeed < 0
  /\ Len(drawn[1]) = MaxDraws
  /\ \E k \in 1..(MaxDraws - 1) :
        31 \in Xor(drawn[1][k], Shl(drawn[1][k], 13))
  /\ drawn[1][MaxDraws] # {}

----------------------------------------------------------------------------
(* Properties of determineRounds *)

\* 1 January 2025 is a Wednesday: the Saturdays of that month are the days
\* 4, 11, 18, 25 and the Sundays the days 5, 12, 19, 26
January2025Weekend(date) == date.day % 7 \in {4, 5}

\* C19: determineRounds returns the caller's count when it is a positive
\* number; otherwise 1 without a date seed, 2 when the seed's date is a
\* Saturday or Sunday, 3 on a weekday; the result is at least 1 also when the
\* supplied count is 0, negative or NaN.
C19_RoundsFromCountOrDate ==
  (pc = "determined") =>
    LET positive == userRounds.kind = "number" /\ userRounds.value > 0
    IN  /\ positive => rounds = userRounds.value
        /\ (~positive /\ parsedDate = NoDate) => rounds = 1
        /\ (~positive /\ parsedDate # NoDate /\ January2025Weekend(parsedDate))
              => rounds = 2
        /\ (~positive /\ parsedDate # NoDate /\ ~January2025Weekend(parsedDate))
              => rounds = 3
        /\ rounds >= 1

\* a count of 0 with the seed of a Sunday
C19_Witness ==
  /\ pc = "determined"
  /\ userRounds = Number(0)
  /\ parsedDate = Date(2025, 1, 12)
  /\ rounds = 2

----------------------------------------------------------------------------
(* Properties of one round of randomizeTeams *)

\* the count a person had when the current round began
CountAtRoundStart(person) ==
  appearances[person] - (IF person \in Range(Team(round)) THEN 1 ELSE 0)

\* the eligible under-minimum members at the beginning of the current round
UnderMinimumAtRoundStart ==
  {person \in Range(params.pool) :
     /\ CountAtRoundStart(person) < params.maxAppearances
     /\ CountAtRoundStart(person) < params.minAppearances}

C20_UnderMinimumTakenFirst ==
  (pc \in {"selectUnder", "selectRemaining", "verify"}) =>
    LET under == UnderMinimumAtRoundStart
        team == Range(Team(round))
    IN  /\ (team \ under # {}) => under \subseteq team
        /\ (pc = "verify" /\ Cardinality(under) >= params.teamSize) =>
              team \subseteq under

C20_CountedWhenSelected ==
  (pc \in {"selectUnder", "selectRemaining"} /\ teams' # teams) =>
    \E person \in Range(params.pool) :
      /\ teams' = [teams EXCEPT ![round + 1] = Append(@, person)]
      /\ appearances' = [appearances EXCEPT ![person] = @ + 1]

\* C20: in every round the under-minimum candidates are taken before any
\* other: with at least teamSize eligible members under the minimum the
\* whole team consists of such members, otherwise every eligible
\* under-minimum member is in the team and only the remaining slots go to
\* members at or above the minimum; the count of a selected person is
\* incremented in the step that selects it.
C20_UnderMinimumFirst ==
  [](C20_UnderMinimumTakenFirst) /\ [][C20_CountedWhenSelected]_vars

\* a later round whose team holds every under-minimum member and is filled
\* up with members at the minimum or above
C20_Witness ==
  /\ pc = "verify" /\ round >= 1
  /\ Len(Team(round)) = params.teamSize
  /\ UnderMinimumAtRoundStart # {}
  /\ Cardinality(UnderMinimumAtRoundStart) < params.teamSize
  /\ Range(Team(round)) \ UnderMinimumAtRoundStart # {}

----------------------------------------------------------------------------
(* Properties of interleaved invocations *)

\* what a finished invocation returned
Outcome(frame) == [result |-> frame.result, regenerated |-> frame.regenerated]

\* C18: when the steps of two invocations of randomizeTeams and
\* regenerateTeamsWithDisabled, each with its own generator and appearances,
\* are interleaved in any order, each returns what the invocation returns
\* when run alone.
C18_InterleavedAsAlone ==
  (active # 0) =>
    /\ Finished(CurrentFrame) => Outcome(CurrentFrame) = alone
    /\ Finished(parked) => Outcome(parked) = alone

\* both invocations have returned adjusted teams; the second one started
\* while the first was inside a round, and a shuffle drew from the generator
C18_Witness ==
  /\ active = 2
  /\ Finished(CurrentFrame) /\ Finished(parked)
  /\ pc = "regenDone" /\ call.made /\ call.replacement # Null
  /\ random.calls >= 2
  /\ Len(params.pool) >= 3

----------------------------------------------------------------------------
(* Properties of the fill loop and of the final checks *)

\* the pool members outside the current round's team whose running count is
\* strictly below maxAppearances
StillEligible ==
  {person \in Range(params.pool) :
     /\ person \notin Range(Team(round))
     /\ appearances[person] < params.maxAppearances}

\* the slots of the current round that are still open
OpenSlots == params.teamSize - Len(Team(round))

C21_StarvationStep ==
  /\ (pc = "while" /\ OpenSlots > 0) =>
        IF Cardinality(StillEligible) < OpenSlots
        THEN /\ result' = Failure(ErrCannotSatisfy)
             /\ ~IsSuccess(result')
             /\ pc' = "done"
        ELSE /\ result' = result
             /\ pc' # "done"
  /\ (result' # result /\ result' = Failure(ErrCannotSatisfy)) =>
        /\ pc = "while" /\ OpenSlots > 0
        /\ Cardinality(StillEligible) < OpenSlots

\* C21: after the static checks, the starvation error is returned if and
\* only if at some fill iteration of some round the pool members not yet in
\* the round's team with a running count below maxAppearances are fewer than
\* the open slots of the round; the test is made at every fill iteration and
\* no teams are returned with the error.
C21_StarvationIffTooFewEligible == [][C21_StarvationStep]_vars

\* starvation in a later round, with somebody still eligible
C21_Witness ==
  /\ result = Failure(ErrCannotSatisfy)
  /\ round >= 1
  /\ StillEligible # {}
  /\ Cardinality(StillEligible) < OpenSlots

\* C22: once all rounds are built with teamSize members each, the
\* minimum-not-satisfied error is returned exactly when some pool member is
\* in fewer than minAppearances rounds, and the teams are returned otherwise;
\* the error is reachable for parameters that pass the four static checks.
C22_MinimumCheckAfterGeneration ==
  (pc = "done" /\ round = params.rounds) =>
    LET short == \E k \in 1..Len(params.pool) :
                   RoundsContaining(teams, params.pool[k]) < params.minAppearances
    IN  /\ short <=> (result = Failure(ErrMinNotMet))
        /\ ~short <=> (IsSuccess(result) /\ result.teams = teams)
        /\ \A r \in 1..Len(teams) : Len(teams[r]) = params.teamSize

\* the scenario pool of 3, teamSize 2, rounds 3, min 2, max 3
C22_Witness ==
  /\ result = Failure(ErrMinNotMet)
  /\ Len(params.pool) = 3 /\ params.teamSize = 2 /\ params.rounds = 3
  /\ params.minAppearances = 2 /\ params.maxAppearances = 3
  /\ validationError(params) = ""

\* C23: for an integer teamSize >= 1, rounds >= 1 and a pool of distinct
\* names the internal team-size error is never returned: a round whose fill
\* loop has exited without starvation holds exactly teamSize members.
C23_NoInternalError ==
  (params.teamSize >= 1 /\ params.rounds >= 1 /\ Distinct(params.pool)) =>
    /\ result # Failure(ErrInternal)
    /\ (pc = "verify") => Len(Team(round)) = params.teamSize
    /\ (pc \in {"while", "selectUnder", "selectRemaining"}) =>
          Len(Team(round)) <= params.teamSize

\* a later round filled from both groups reaches the verification
C23_Witness ==
  /\ pc = "verify" /\ round >= 1
  /\ params.teamSize >= 2
  /\ Len(Team(round)) = params.teamSize
  /\ selectFromUnderMin >= 1 /\ selectFromRemaining >= 1

\* the seeds of the calls checked for termination: the all-zero stream and
\* two streams of varied draws
OnceSeeds == {0, 42, 123456}

\* the caller hands its parameters to randomizeTeams
Call ==
  /\ pc = "start"
  /\ params' \in {p \in ParamSpace : p.seed \in OnceSeeds}
  /\ pc' = "validate"
  /\ UNCHANGED <<random, appearances, teams, round, passes, result, invocation,
                 previous>>
  /\ UnchangedLocals
  /\ UNCHANGED regenVars
  /\ UNCHANGED outsideVars

\* the call and the eight steps of randomizeTeams
NextOnce ==
  \/ Call
  \/ Validate
  \/ FillPass
  \/ SelectUnderMin
  \/ AfterUnderMin
  \/ SelectRemaining
  \/ EndPass
  \/ VerifyTeam
  \/ MinCheck

\* before the call
InitOnce ==
  /\ params = CHOOSE p \in ParamSpace : TRUE
  /\ pc = "start"
  /\ NotStarted
  /\ NoGenerators
  /\ NoRoundsRequest
  /\ NoInterleaving
  /\ NoShuffle

\* a started call keeps running: the function is synchronous
SpecOnce == InitOnce /\ [][NextOnce]_vars /\ WF_vars(NextOnce)

\* C24: randomizeTeams always terminates and no round needs a second pass of
\* its fill loop: the first pass ends in the starvation error or brings the
\* team to exactly teamSize members, so a round takes at most one fill
\* iteration, which is no more than the pool size.
C24_TerminatesInOnePassPerRound ==
  /\ <>(pc = "done" /\ Returned)
  /\ [](passes <= 1 /\ (passes >= 1 => passes <= Len(params.pool)))
  /\ []((pc = "while" /\ passes = 1) => Len(Team(round)) = params.teamSize)

\* a call of several rounds has returned teams, each round after one pass
C24_Witness ==
  /\ pc = "done" /\ IsSuccess(result)
  /\ params.rounds >= 3 /\ params.teamSize >= 2
  /\ params.minAppearances >= 1


\* the generator, the counts and the empty teams exist: the call is past
\* line 209
Initialized ==
  \/ pc \in {"while", "selectUnder", "selectRemaining", "verify"}
  \/ pc = "done" /\ validationError(params) = ""

\* the counts app agree with the teams ts built so far
CountsMatchTeams(app, ts) ==
  /\ DOMAIN app = Range(params.pool)
  /\ \A person \in Range(params.pool) :
       /\ app[person] = RoundsContaining(ts, person)
       /\ app[person] <= params.maxAppearances

\* C25: at every point of randomizeTeams after initialization, after each
\* single selection and in the returned result, the appearances map has
\* exactly the pool members as keys, each count is the number of rounds built
\* so far whose team contains the member, and no count exceeds maxAppearances.
C25_CountsMatchTeams ==
  /\ Initialized => CountsMatchTeams(appearances, teams)
  /\ IsSuccess(result) => CountsMatchTeams(result.appearances, result.teams)

\* in the middle of a later round: a member of the team under construction
\* is at the maximum, another pool member has not been selected at all
C25_Witness ==
  /\ pc = "selectRemaining" /\ round >= 1
  /\ Len(Team(round)) >= 1 /\ Len(Team(round)) < params.teamSize
  /\ \E person \in Range(Team(round)) :
       appearances[person] = params.maxAppearances
  /\ \E person \in Range(params.pool) : appearances[person] = 0


\* the members that were eligible at the beginning of the current round
EligibleAtRoundStart ==
  {person \in Range(params.pool) :
     CountAtRoundStart(person) < params.maxAppearances}

\* a and b are on the same side of the minimum at the beginning of the round
SameStatusAtRoundStart(a, b) ==
  (CountAtRoundStart(a) < params.minAppearances)
    <=> (CountAtRoundStart(b) < params.minAppearances)

\* C26: eligible participants are prioritized first by being under the
\* minimum and then by fewer appearances: in a completed round, no member was
\* selected while an eligible participant of the same under-minimum status
\* with strictly fewer appearances is left out of that round.
C26_FewerAppearancesFirst ==
  (pc = "verify" /\ Len(Team(round)) = params.teamSize) =>
    \A selected \in Range(Team(round)) :
      \A leftOut \in EligibleAtRoundStart \ Range(Team(round)) :
        SameStatusAtRoundStart(selected, leftOut) =>
          CountAtRoundStart(leftOut) >= CountAtRoundStart(selected)


----------------------------------------------------------------------------
(* shuffleArray with the draws of an arbitrary generator *)

MaxShuffleLen == 4

ShuffleItems == {"a", "b", "c"}

\* the arrays handed to shuffleArray: every length up to MaxShuffleLen,
\* repeated elements included
ShuffleArrays == UNION {[1..n -> ShuffleItems] : n \in 0..MaxShuffleLen}

\* values random() may return, as numerators over 2^32: 0, 1/8, 1/4, 1/2,
\* 3/4 and the largest value below 1
ShuffleDraws == {{}, {29}, {30}, {31}, {30, 31}, 0..31}

\* const result = array
ArrayCopy_SameObject(array) == [elements |-> array, sameObject |-> TRUE]

\* const result = [...array]: a new array object with the same elements
ArrayCopy(array) == [elements |-> array, sameObject |-> FALSE]

\* shuffleArray is called with `given`; `array` is the caller's array object
InitShuffle ==
  /\ \E given \in ShuffleArrays :
       shuffling = [phase |-> "call", given |-> given, array |-> given,
                    result |-> <<>>, sameObject |-> FALSE, i |-> 0,
                    swaps |-> <<>>]
  /\ params = CHOOSE p \in ParamSpace : TRUE
  /\ pc = "shuffle"
  /\ NotStarted
  /\ NoGenerators
  /\ NoRoundsRequest
  /\ NoInterleaving

\* line 150 and the loop head of line 151
CopyArray ==
  /\ shuffling.phase = "call"
  /\ LET copy == ArrayCopy(shuffling.array) IN
       shuffling' = [shuffling EXCEPT !.phase = "loop",
                                      !.result = copy.elements,
                                      !.sameObject = copy.sameObject,
                                      !.i = Len(copy.elements) - 1]
  /\ UNCHANGED <<randomizeVars, regenVars, generatorVars, roundsVars,
                 interleaveVars>>

\* lines 151-154: one iteration with the draw d; index i of the code is
\* position i + 1 here
SwapStep ==
  /\ shuffling.phase = "loop"
  /\ shuffling.i > 0
  /\ \E d \in ShuffleDraws :
       LET j == FloorMul(d, shuffling.i + 1)
           swapped == Swap(shuffling.result, shuffling.i + 1, j + 1)
       IN  shuffling' =
             [shuffling EXCEPT !.result = swapped,
                               !.array = IF shuffling.sameObject THEN swapped
                                         ELSE @,
                               !.swaps = Append(@, [i |-> shuffling.i, j |-> j]),
                               !.i = @ - 1]
  /\ UNCHANGED <<randomizeVars, regenVars, generatorVars, roundsVars,
                 interleaveVars>>

\* line 155
ReturnShuffled ==
  /\ shuffling.phase = "loop"
  /\ shuffling.i <= 0
  /\ shuffling' = [shuffling EXCEPT !.phase = "returned"]
  /\ UNCHANGED <<randomizeVars, regenVars, generatorVars, roundsVars,
                 interleaveVars>>

NextShuffle ==
  \/ CopyArray
  \/ SwapStep
  \/ ReturnShuffled

SpecShuffle == InitShuffle /\ [][NextShuffle]_vars

\* how often x occurs in the array s
TimesIn(s, x) == Cardinality({k \in 1..Len(s) : s[k] = x})

\* C27: shuffleArray returns a permutation of its input for every input
\* array and every sequence of draws in [0, 1): the result has the same
\* length and the same multiset of elements, every swap index j satisfies
\* 0 <= j <= i, and the input array itself is left unmodified.
C27_ShuffleIsPermutation ==
  /\ shuffling.phase \in {"loop", "returned"} =>
       /\ Len(shuffling.result) = Len(shuffling.given)
       /\ \A x \in ShuffleItems :
            TimesIn(shuffling.result, x) = TimesIn(shuffling.given, x)
       /\ \A k \in 1..Len(shuffling.swaps) :
            /\ 0 <= shuffling.swaps[k].j
            /\ shuffling.swaps[k].j <= shuffling.swaps[k].i
            /\ shuffling.swaps[k].i = Len(shuffling.given) - k
       /\ shuffling.array = shuffling.given
  /\ shuffling.phase = "returned" =>
       Len(shuffling.swaps) = IF Len(shuffling.given) = 0 THEN 0
                              ELSE Len(shuffling.given) - 1

\* an array with a repeated element came back in another order, after a
\* swap of a position with itself and a swap with the first position
C27_Witness ==
  /\ shuffling.phase = "returned"
  /\ Len(shuffling.given) = MaxShuffleLen
  /\ shuffling.result # shuffling.given
  /\ \E x \in ShuffleItems : TimesIn(shuffling.given, x) = 2
  /\ \E k \in 1..Len(shuffling.swaps) : shuffling.swaps[k].j = shuffling.swaps[k].i
  /\ \E k \in 1..Len(shuffling.swaps) : shuffling.swaps[k].j = 0


\* the adjustment step is running or has returned
Adjusting == pc \in {"entries", "remove", "regenDone"}

\* C28: on the teams of a successful randomizeTeams result (distinct members
\* per round, nobody in more than maxAppearances rounds), while and after any
\* disabled sets are applied no pool member appears in more than
\* maxAppearances rounds, so the per-person "exceeds maximum" error is never
\* produced.
C28_MaximumKeptByAdjustment ==
  Adjusting =>
    \A person \in Range(params.pool) :
      /\ RoundsContaining(newTeams, person) <= params.maxAppearances
      /\ (pc = "regenDone" /\ person \in DOMAIN regenerated.errors) =>
            /\ RoundsContaining(regenerated.teams, person) < params.minAppearances
            /\ regenerated.errors[person] \notin
                 {ErrAboveMax(params.maxAppearances, count) :
                    count \in 0..Len(regenerated.teams)}

\* a replacement was appended while another pool member, outside the team
\* and not disabled, was passed over for being at the maximum
C28_Witness ==
  /\ pc = "regenDone"
  /\ call.made /\ call.replacement # Null
  /\ \E person \in Range(params.pool) \ (Range(call.currentTeam) \cup call.disabled) :
       /\ person # call.removedPerson
       /\ RoundsWith(call.allTeams, call.round, person) = params.maxAppearances
  /\ \E person \in Range(params.pool) :
       RoundsContaining(regenerated.teams, person) = params.maxAppearances

\* C29: after regenerateTeamsWithDisabled on teams whose rounds have
\* pairwise-distinct members, in every round no member of the team is in the
\* round's disabled set, and the members are still pairwise distinct and all
\* drawn from the pool or the original team.
C29_NoDisabledMemberLeft ==
  (pc = "regenDone") =>
    \A r \in 0..(Len(regenerated.teams) - 1) :
      LET team == regenerated.teams[r + 1] IN
        /\ \A k \in 1..Len(team) :
             ~(r \in DOMAIN disabled /\ team[k] \in disabled[r])
        /\ Distinct(team)
        /\ Range(team) \subseteq Range(params.pool) \cup Range(originalTeams[r + 1])

\* two members of one round were disabled, one was replaced and the round
\* still has another of its original members
C29_Witness ==
  /\ pc = "regenDone"
  /\ \E r \in DOMAIN disabled :
       /\ r < Len(originalTeams)
       /\ Cardinality(disabled[r] \cap Range(originalTeams[r + 1])) >= 1
       /\ Cardinality(disabled[r]) = 2
       /\ Range(regenerated.teams[r + 1]) \ Range(originalTeams[r + 1]) # {}
       /\ Range(regenerated.teams[r + 1]) \cap Range(originalTeams[r + 1]) # {}

\* the members of the original team of round r that are not disabled for it
Survivors(r) ==
  SelectSeq(originalTeams[r + 1],
            LAMBDA person : ~(r \in DOMAIN disabled /\ person \in disabled[r]))

\* round r has a disabled set that names a member of its team
Touched(r) ==
  /\ r \in DOMAIN disabled
  /\ disabled[r] \cap Range(originalTeams[r + 1]) # {}

\* an untouched round keeps its members and their order; a touched round is
\* returned as its surviving members followed by the replacements
C30_OnlyTouchedRoundsChange ==
  Adjusting =>
    \A r \in 0..(Len(originalTeams) - 1) :
      IF ~Touched(r) THEN newTeams[r + 1] = originalTeams[r + 1]
      ELSE (pc = "regenDone") =>
             LET team == regenerated.teams[r + 1]
                 kept == Survivors(r)
             IN  /\ Len(team) >= Len(kept)
                 /\ SubSeq(team, 1, Len(kept)) = kept
                 /\ \A k \in (Len(kept) + 1)..Len(team) :
                      team[k] \notin Range(originalTeams[r + 1])

\* the returned errors are keyed by pool members and by existing rounds only
C30_RoundErrorKeysInRange ==
  (pc = "regenDone") =>
    \A key \in DOMAIN regenerated.errors :
      \/ key \in Range(params.pool)
      \/ \E r \in 0..(Len(originalTeams) - 1) : key = RoundKey(r)

\* the step that meets a disabled entry of a round index out of range skips it
C30_OutOfRangeEntryStep ==
  (pc = "entries" /\ entries # <<>>
     /\ Head(entries) \notin 0..(params.rounds - 1)) =>
    /\ newTeams' = newTeams /\ errors' = errors /\ failed' = failed
    /\ pc' = "entries" /\ entries' = Tail(entries)

\* C30: regenerateTeamsWithDisabled changes only rounds that contain a
\* disabled member: a round without a disabled set, or with none of its
\* disabled members in the team, keeps its members in their order; disabled
\* entries with a round index outside 0..rounds-1 have no effect on teams or
\* errors; in a changed round the surviving members keep their relative order
\* and the replacements are appended at the end.
C30_FrameOfAdjustment ==
  /\ [](C30_OnlyTouchedRoundsChange /\ C30_RoundErrorKeysInRange)
  /\ [][C30_OutOfRangeEntryStep]_vars

\* a round lost its first member and received a replacement at its end,
\* a second disabled entry named a round past the last one
C30_Witness ==
  /\ pc = "regenDone"
  /\ params.rounds \in DOMAIN disabled
  /\ \E r \in 0..(Len(originalTeams) - 1) :
       /\ Touched(r)
       /\ originalTeams[r + 1][1] \in disabled[r]
       /\ Len(regenerated.teams[r + 1]) = Len(originalTeams[r + 1])
       /\ Len(originalTeams[r + 1]) >= 2
  /\ \E r \in 0..(Len(originalTeams) - 1) :
       ~Touched(r) /\ regenerated.teams[r + 1] = originalTeams[r + 1]

====
